---- MODULE Spec2Model ----
(***************************************************************************)
(* Model of ner_fst: State (state.py), TransducerConfig (config.py) and    *)
(* FiniteStateTransducer (fst.py).                                         *)
(*                                                                         *)
(* A text is a sequence of one-character strings.  A regular expression is *)
(* a record [ok, alts]: ok = FALSE is a pattern re cannot compile; alts is *)
(* a set of alternatives, each a sequence of quantified character classes  *)
(* [cls, lo, hi, grp] (hi < 0: unbounded; grp # <<>>: the quantified item  *)
(* is the group grp, a sequence of such items, instead of the class).  A State object is referred to by    *)
(* the key under which FiniteStateTransducer.states holds it.              *)
(***************************************************************************)
EXTENDS Integers, Sequences, FiniteSets, TLC

\* ------------------------------------------------------------------ bounds
\* characters one transducer may be given, summed over its calls
MaxChars == 5
\* processText calls made on one transducer
MaxCalls == 2
\* length of the text two interleaved transducers are given
MaxPairChars == 3
\* add_state / add_transition calls made on the configuration
MaxEdits == 1
\* characters one transducer may be given when the configuration is edited
MaxEditChars == 3
\* length of the texts two tables that differ in is_final are compared on
MaxFinalChars == 3

\* ------------------------------------------------------------- vocabulary
None == "None"
Alphabet == {"a", "b", ".", " "}
Trans == {1, 2}

Texts(n) == UNION {[1..k -> Alphabet] : k \in 0..n}

\* ---------------------------------------------------------- tokenisation
\* str.split() with no argument: maximal runs of non-whitespace characters
RECURSIVE SplitFrom(_, _, _, _)
SplitFrom(s, i, cur, acc) ==
    IF i > Len(s)
    THEN IF cur = <<>> THEN acc ELSE Append(acc, cur)
    ELSE IF s[i] = " "
         THEN SplitFrom(s, i + 1, <<>>, IF cur = <<>> THEN acc ELSE Append(acc, cur))
         ELSE SplitFrom(s, i + 1, Append(cur, s[i]), acc)

split(s) == SplitFrom(s, 1, <<>>, <<>>)

\* token.strip("."): every leading and every trailing "." is removed
RECURSIVE lstrip(_)
lstrip(tok) ==
    IF tok # <<>> /\ Head(tok) = "." THEN lstrip(Tail(tok)) ELSE tok

RECURSIVE rstrip(_)
rstrip(tok) ==
    IF tok # <<>> /\ tok[Len(tok)] = "."
    THEN rstrip(SubSeq(tok, 1, Len(tok) - 1))
    ELSE tok

strip(tok) == rstrip(lstrip(tok))

tokenize(text) ==
    LET raw == split(text) IN [i \in 1..Len(raw) |-> strip(raw[i])]

\* " ".join(buffer)
RECURSIVE join(_)
join(buf) ==
    IF buf = <<>> THEN <<>>
    ELSE IF Len(buf) = 1 THEN buf[1]
    ELSE buf[1] \o <<" ">> \o join(Tail(buf))

\* ------------------------------------------------------ regular expressions
Atom(cls, lo, hi) == [cls |-> cls, lo |-> lo, hi |-> hi, grp |-> <<>>]
Group(atoms, lo, hi) == [cls |-> {}, lo |-> lo, hi |-> hi, grp |-> atoms]
Re(alts) == [ok |-> TRUE, alts |-> alts]
ReA == Re({<<Atom({"a"}, 1, 1)>>})
ReB == Re({<<Atom({"b"}, 1, 1)>>})
ReAplus == Re({<<Atom({"a"}, 1, -1)>>})
ReAB == Re({<<Atom({"a"}, 1, 1), Atom({"."}, 1, 1), Atom({"b"}, 1, 1)>>})
ReInvalid == [ok |-> FALSE, alts |-> {}]

RECURSIVE Repeat(_, _)
Repeat(atoms, k) == IF k = 0 THEN <<>> ELSE atoms \o Repeat(atoms, k - 1)

RECURSIVE MatchAtoms(_, _, _, _)
MatchAtoms(atoms, i, tok, j) ==
    IF i > Len(atoms) THEN j > Len(tok)
    ELSE LET a == atoms[i]
             rest == Len(tok) - j + 1
             top == IF a.hi < 0 \/ a.hi > rest THEN rest ELSE a.hi
         IN  IF a.grp # <<>>
             THEN \E k \in a.lo..top :
                    MatchAtoms(Repeat(a.grp, k) \o SubSeq(atoms, i + 1, Len(atoms)),
                               1, tok, j)
             ELSE \E k \in a.lo..top :
                    /\ \A m \in j..(j + k - 1) : tok[m] \in a.cls
                    /\ MatchAtoms(atoms, i + 1, tok, j + k)

\* re.fullmatch(regex, input_text) for a pattern that compiles
fullmatch(regex, tok) == \E alt \in regex.alts : MatchAtoms(alt, 1, tok, 1)

\* ------------------------------------------------------------ config.py
\* TransducerConfig.config: "states" is a list of (name, is_final),
\* "transitions" a list of (from_state, regex, to_state[, output]); a
\* transition written here with output None is one the list holds without
\* a fourth element.
Config(sts, init, trs) == [states |-> sts, initial_state |-> init, transitions |-> trs]

CfgLabels ==
    Config(<< <<"q0", FALSE>>, <<"q1", FALSE>>, <<"q2", TRUE>> >>, "q0",
           << <<"q0", ReA, "q1", None>>,
              <<"q0", ReB, "q2", "Y">>,
              <<"q1", ReA, "q1", "X">>,
              <<"q1", ReB, "q2", "Y">>,
              <<"q2", ReA, "q2", None>>,
              <<"q2", ReAplus, "q1", "Z">> >>)

CfgOtherInit ==
    Config(<< <<"s0", FALSE>>, <<"q0", FALSE>>, <<"q1", FALSE>>, <<"q2", TRUE>> >>, "s0",
           << <<"s0", ReA, "q1", "X">>,
              <<"q1", ReB, "q2", "Y">>,
              <<"q2", ReA, "q2", None>>,
              <<"q0", ReB, "q1", "Y">>,
              <<"q1", ReAB, "q1", None>> >>)

CfgNoQ0 ==
    Config(<< <<"s0", FALSE>>, <<"s1", TRUE>> >>, "s0",
           << <<"s0", ReA, "s1", "X">> >>)

CfgBadFrom ==
    Config(<< <<"q0", FALSE>> >>, "q0", << <<"qx", ReA, "q0", "X">> >>)

CfgBadTo ==
    Config(<< <<"q0", FALSE>> >>, "q0", << <<"q0", ReA, "qx", "X">> >>)

CfgBadInit ==
    Config(<< <<"q0", FALSE>> >>, "qx", << <<"q0", ReA, "q0", "X">> >>)

CfgBadRe ==
    Config(<< <<"q0", FALSE>>, <<"q1", TRUE>> >>, "q0",
           << <<"q0", ReA, "q1", "X">>,
              <<"q1", ReInvalid, "q1", "X">> >>)

Configs == {CfgLabels, CfgOtherInit, CfgNoQ0, CfgBadFrom, CfgBadTo, CfgBadInit, CfgBadRe}

\* ------------------------------------------- config.py: the given configuration
Digit == {"0", "1", "2", "3", "4", "5", "6", "7", "8", "9"}
Upper == {"A", "B", "C", "D", "E", "F", "G", "H", "I", "J", "K", "L", "M", "N", "O", "P", "Q", "R", "S", "T", "U", "V", "W", "X", "Y", "Z"}
Lower == {"a", "b", "c", "d", "e", "f", "g", "h", "i", "j", "k", "l", "m", "n", "o", "p", "q", "r", "s", "t", "u", "v", "w", "x", "y", "z"}
Letter == Upper \cup Lower
Whitespace == {" "}

Lit(c) == Atom({c}, 1, 1)
Word(w) == [i \in DOMAIN w |-> Lit(w[i])]
Opt(cls) == Atom(cls, 0, 1)
Plus(cls) == Atom(cls, 1, -1)
Star(cls) == Atom(cls, 0, -1)
Times(cls, n) == Atom(cls, n, n)

\* (06|\+36)\d{2}[\s\-]?\d{3}[\s\-]?\d{4}
RePhone ==
    LET rest == <<Times(Digit, 2), Opt(Whitespace \cup {"-"}), Times(Digit, 3),
                  Opt(Whitespace \cup {"-"}), Times(Digit, 4)>>
    IN  Re({Word(<<"0", "6">>) \o rest, Word(<<"+", "3", "6">>) \o rest})

\* \d+
ReNumber == Re({<<Plus(Digit)>>})

\* \s?(forint|HUF|EUR|USD|dollars|euros|yen|pounds|GBP)
CurrencyWords == {<<"f", "o", "r", "i", "n", "t">>, <<"H", "U", "F">>, <<"E", "U", "R">>, <<"U", "S", "D">>, <<"d", "o", "l", "l", "a", "r", "s">>, <<"e", "u", "r", "o", "s">>, <<"y", "e", "n">>, <<"p", "o", "u", "n", "d", "s">>, <<"G", "B", "P">>}
ReCurrency == Re({<<Opt(Whitespace)>> \o Word(w) : w \in CurrencyWords})

\* \d{4},?
RePostalCode == Re({<<Times(Digit, 4), Opt({","})>>})

\* [A-Z][a-z]+(?: [A-Za-z]+)*,?
ReCity == Re({<<Times(Upper, 1), Plus(Lower),
                Group(<<Lit(" "), Plus(Letter)>>, 0, -1), Opt({","})>>})

\* [A-Za-z\s]+
ReStreet == Re({<<Plus(Letter \cup Whitespace)>>})

\* (utca|tér|út|körút)
StreetTypeWords == {<<"u", "t", "c", "a">>, <<"t", "é", "r">>, <<"ú", "t">>, <<"k", "ö", "r", "ú", "t">>}
ReStreetType == Re({Word(w) : w \in StreetTypeWords})

\* [A-Z][a-z]+
ReName == Re({<<Times(Upper, 1), Plus(Lower)>>})

\* [a-zA-Z0-9._%+-]+@[a-zA-Z0-9.-]+\.[a-zA-Z]{2,}
ReEmail == Re({<<Plus(Letter \cup Digit \cup {".", "_", "%", "+", "-"}), Lit("@"),
                 Plus(Letter \cup Digit \cup {".", "-"}), Lit("."),
                 Atom(Letter, 2, -1)>>})

\* (\d{4}[.\-]?\d{2}[.\-]?\d{2}|\d{2}[.\-]?\d{2}[.\-]?\d{4}|\d{2}/\d{2}/\d{4})
ReDate ==
    Re({<<Times(Digit, 4), Opt({".", "-"}), Times(Digit, 2), Opt({".", "-"}), Times(Digit, 2)>>,
        <<Times(Digit, 2), Opt({".", "-"}), Times(Digit, 2), Opt({".", "-"}), Times(Digit, 4)>>,
        <<Times(Digit, 2), Lit("/"), Times(Digit, 2), Lit("/"), Times(Digit, 4)>>})

\* https?://[A-Za-z0-9.-]+(?:/[A-Za-z0-9&%_./-]*)?
ReUrl ==
    Re({Word(<<"h", "t", "t", "p">>) \o <<Opt({"s"})>> \o Word(<<":", "/", "/">>)
        \o <<Plus(Letter \cup Digit \cup {".", "-"}),
             Group(<<Lit("/"), Star(Letter \cup Digit \cup {"&", "%", "_", ".", "/", "-"})>>, 0, 1)>>})

\* TransducerConfig.__init__
CfgReference ==
    Config(<< <<"q0", FALSE>>, <<"q1_person", FALSE>>, <<"q_date", TRUE>>,
              <<"q2_person", TRUE>>, <<"q_email", TRUE>>, <<"q_phone", TRUE>>,
              <<"q_url", TRUE>>, <<"q_number", FALSE>>, <<"q_currency", TRUE>>,
              <<"q_postalcode", FALSE>>, <<"q_city", FALSE>>, <<"q_street", FALSE>>,
              <<"q_street_type", FALSE>>, <<"q_address", TRUE>> >>,
           "q0",
           << <<"q0", RePhone, "q_phone", "PHONE_NUMBER">>,
              <<"q0", ReNumber, "q_number", None>>,
              <<"q_number", ReCurrency, "q_currency", "PRICE">>,
              <<"q0", RePostalCode, "q_postalcode", "POSTALCODE">>,
              <<"q_postalcode", ReCity, "q_city", "CITY">>,
              <<"q_city", ReStreet, "q_street", "ADDRESS">>,
              <<"q_street", ReStreetType, "q_street_type", "ADDRESS">>,
              <<"q_street_type", ReNumber, "q_address", "ADDRESS">>,
              <<"q0", ReName, "q1_person", None>>,
              <<"q1_person", ReName, "q1_person", "PERSON">>,
              <<"q1_person", ReName, "q2_person", "PERSON">>,
              <<"q0", ReEmail, "q_email", "EMAIL">>,
              <<"q0", ReDate, "q_date", "DATE">>,
              <<"q0", ReUrl, "q_url", "URL">> >>)

\* input texts for the given configuration
TextEmail == <<"j", "o", "h", "n", "@", "e", "x", "a", "m", "p", "l", "e", ".", "c", "o", "m">>
TextPhone == <<"0", "6", "2", "0", "9", "8", "7", "6", "5", "4", "3">>
TextPrice == <<"1", "0", "0", " ", "f", "o", "r", "i", "n", "t">>
TextHash == <<"#", "#", "#">>
TextContact == <<"C", "o", "n", "t", "a", "c", "t", " ", "j", "o", "h", "n", "@", "e", "x", "a", "m", "p", "l", "e", ".", "c", "o", "m", " ", "t", "o", "d", "a", "y">>
TextName == <<"J", "o", "h", "n", " ", "S", "m", "i", "t", "h">>
TextNames == <<"A", "n", "n", " ", "L", "e", "e", " ", "K", "i", "m", ".">>
TextAddress == <<"1", "0", "5", "1", ",", " ", "P", "e", "s", "t", " ", "F", "o", " ", "u", "t", "c", "a", " ", "5">>
TextUrl == <<"h", "t", "t", "p", ":", "/", "/", "x", ".", "h", "u", "/", "a", " ", "2", "0", "2", "4", ".", "0", "1", ".", "0", "5">>
RefTexts == {TextEmail, TextPhone, TextPrice, TextHash, TextContact, TextName,
             TextNames, TextAddress, TextUrl}

\* TransducerConfig.add_state
config_add_state(cfg, name, is_final) ==
    [cfg EXCEPT !.states = Append(@, <<name, is_final>>)]

\* TransducerConfig.add_transition: (from_state, regex, to_state) + ((output,) if output else ())
config_add_transition(cfg, from_state, regex, to_state, output) ==
    [cfg EXCEPT !.transitions =
        Append(@, <<from_state, regex, to_state,
                    IF output # None /\ output # "" THEN output ELSE None>>)]

\* the add_state and add_transition calls tried on a configuration
EditStates == {<<"q9", TRUE>>, <<"q0", TRUE>>}
EditTransitions == {<<"q0", ReB, "q0", "E">>, <<"q0", ReA, "q9", "">>}

\* ------------------------------------------------------------- state.py
\* State.__init__
State(name, is_final) == [name |-> name, is_final |-> is_final, transitions |-> <<>>]

\* State.add_transition
add_transition(state, regex, next_state, output) ==
    [state EXCEPT !.transitions = Append(@, <<regex, next_state, output>>)]

\* State.get_next_state: the transitions are tried in list order; re compiles
\* a pattern when it is first matched against, so a pattern that cannot be
\* compiled raises re.error when the scan reaches it.
NoMatch == [next_state |-> None, output |-> None, raised |-> FALSE]

\* the last transition whose pattern matches wins
RECURSIVE ScanTransitionsLast(_, _, _)
ScanTransitionsLast(trs, i, tok) ==
    IF i > Len(trs) THEN NoMatch
    ELSE LET later == ScanTransitionsLast(trs, i + 1, tok) IN
         IF later.raised \/ later.next_state # None THEN later
         ELSE IF ~trs[i][1].ok
              THEN [next_state |-> None, output |-> None, raised |-> TRUE]
              ELSE IF fullmatch(trs[i][1], tok)
                   THEN [next_state |-> trs[i][2], output |-> trs[i][3], raised |-> FALSE]
                   ELSE NoMatch

RECURSIVE ScanTransitions(_, _, _)
ScanTransitions(trs, i, tok) ==
    IF i > Len(trs) THEN NoMatch
    ELSE IF ~trs[i][1].ok
         THEN [next_state |-> None, output |-> None, raised |-> TRUE]
         ELSE IF fullmatch(trs[i][1], tok)
              THEN [next_state |-> trs[i][2], output |-> trs[i][3], raised |-> FALSE]
              ELSE ScanTransitions(trs, i + 1, tok)

\* a final state accepts no further token
get_next_state_final_stops(state, tok) ==
    IF state.is_final THEN NoMatch ELSE ScanTransitions(state.transitions, 1, tok)

get_next_state(state, tok) == ScanTransitions(state.transitions, 1, tok)

\* --------------------------------------------------- fst.py: construction
\* __setup_states / __add_state: self.states[name] = State(name, is_final)
RECURSIVE setup_states(_, _, _)
setup_states(sts, i, table) ==
    IF i > Len(sts) THEN table
    ELSE setup_states(sts, i + 1,
                      (sts[i][1] :> State(sts[i][1], sts[i][2])) @@ table)

\* __setup_transitions / __add_transition: self.states[from_state] and
\* self.states[to_state] raise KeyError for a name that is no key
RECURSIVE setup_transitions(_, _, _)
setup_transitions(trs, i, table) ==
    IF i > Len(trs) THEN [raised |-> FALSE, states |-> table]
    ELSE LET tr == trs[i] IN
         IF tr[1] \notin DOMAIN table \/ tr[3] \notin DOMAIN table
         THEN [raised |-> TRUE, states |-> table]
         ELSE setup_transitions(trs, i + 1,
                  [table EXCEPT ![tr[1]] = add_transition(@, tr[2], tr[3], tr[4])])

EmptyTable == [n \in {} |-> State(n, FALSE)]

\* __set_initial_state: self.current_state = self.states[name]
set_initial_state(table, name) ==
    IF name \in DOMAIN table
    THEN [raised |-> FALSE, current_state |-> name]
    ELSE [raised |-> TRUE, current_state |-> None]

\* FiniteStateTransducer.__init__
Build(cfg) ==
    LET b == setup_transitions(cfg.transitions, 1,
                               setup_states(cfg.states, 1, EmptyTable))
        s == set_initial_state(b.states, cfg.initial_state)
    IN  IF b.raised \/ s.raised
        THEN [raised |-> TRUE, states |-> EmptyTable, current_state |-> None]
        ELSE [raised |-> FALSE, states |-> b.states, current_state |-> s.current_state]

\* ------------------------------------------------- fst.py: __process parts
\* truth value of an Optional[str]
Truthy(x) == x # None /\ x # ""

\* an unlabelled transition clears the pending label
update_category_always(category, output) == output

\* lines 137-138 and 151-152: if output: category = output
update_category(category, output) ==
    IF Truthy(output) THEN output ELSE category

\* the buffer is emitted whether it has a label or not
flush_unlabelled(results, buffer, category) ==
    IF buffer # <<>>
    THEN Append(results, <<join(buffer), category>>)
    ELSE results

\* lines 141-142 and 155-156
flush(results, buffer, category) ==
    IF buffer # <<>> /\ Truthy(category)
    THEN Append(results, <<join(buffer), category>>)
    ELSE results

\* line 144: self.current_state = self.states["q0"]
reset_state(table) ==
    IF "q0" \in DOMAIN table
    THEN [raised |-> FALSE, current_state |-> "q0"]
    ELSE [raised |-> TRUE, current_state |-> None]

\* the buffer survives the reset
reset_buffer_keep(buffer) == buffer

\* line 145: buffer, category = [], None
reset_buffer(buffer) == <<>>

\* current_state is one attribute shared by every instance
set_current_shared(cs, t, name) == [u \in DOMAIN cs |-> name]

\* current_state is an attribute of the instance
set_current(cs, t, name) == [cs EXCEPT ![t] = name]

\* __process as a function of the table, the state it starts in and the text:
\* what one transducer that nothing else touches returns
RECURSIVE process_loop(_, _, _, _, _, _, _)
process_loop(table, cur, toks, i, buf, cat, res) ==
    IF i > Len(toks)
    THEN [raised |-> FALSE, result |-> flush(res, buf, cat), current_state |-> cur]
    ELSE LET r == get_next_state(table[cur], toks[i]) IN
         IF r.raised THEN [raised |-> TRUE, result |-> <<>>, current_state |-> cur]
         ELSE IF r.next_state # None
         THEN process_loop(table, r.next_state, toks, i + 1, Append(buf, toks[i]),
                           update_category(cat, r.output), res)
         ELSE LET flushed == flush(res, buf, cat)
                  s == reset_state(table)
              IN  IF s.raised THEN [raised |-> TRUE, result |-> <<>>, current_state |-> cur]
                  ELSE LET r2 == get_next_state(table[s.current_state], toks[i]) IN
                       IF r2.raised
                       THEN [raised |-> TRUE, result |-> <<>>,
                             current_state |-> s.current_state]
                       ELSE IF r2.next_state # None
                       THEN process_loop(table, r2.next_state, toks, i + 1, <<toks[i]>>,
                                         update_category(None, r2.output), flushed)
                       ELSE process_loop(table, s.current_state, toks, i + 1, <<>>,
                                         None, flushed)

process(table, cur, text) == process_loop(table, cur, tokenize(text), 1, <<>>, None, <<>>)

\* consecutive calls on one instance: each call starts in the state the call
\* before it left in self.current_state
RECURSIVE process_calls(_, _, _, _)
process_calls(table, cur, texts, i) ==
    IF i > Len(texts) THEN <<>>
    ELSE LET r == process(table, cur, texts[i]) IN
         <<[input |-> texts[i], raised |-> r.raised, result |-> r.result]>>
             \o process_calls(table, r.current_state, texts, i + 1)

\* ------------------------------------------------------------------ state
VARIABLES
    config,         \* TransducerConfig.config, the dict every transducer is given
    edits,          \* number of add_state / add_transition calls made on it
    built,          \* observer: what __init__ left in each transducer
    active,         \* the transducers that exist in this run
    pair_text,      \* the text both transducers are given when there are two
    states,         \* self.states of each transducer (empty before __init__)
    current_state,  \* self.current_state of each transducer (key in states)
    pc,             \* "unbuilt", "failed" (__init__ raised), "idle", "loop"
                    \* (top of the for loop), "retry" (after line 145), "raised"
    error,          \* the exception the last operation raised, or "none"
    input_text,     \* argument of the running / last __process call
    tokens,         \* local tokens
    idx,            \* position of the for loop in tokens (1-based)
    buffer,         \* local buffer
    category,       \* local category
    results,        \* local results
    calls,          \* number of __process calls made so far
    chars,          \* characters given so far
    history,        \* completed calls: [input, raised, result]
    attempts,       \* observer: get_next_state calls made for the current token
    path,           \* observer: outputs of the transitions taken for buffer
    first,          \* observer: index in tokens of buffer[1]
    spans,          \* observer: [first, last, path] of every appended result
    lastFlush,      \* observer: the buffer seen by the latest lines 141 / 155
    outcome,        \* observer: what the last iteration did with its token
    runs            \* observer: [first, last] of the buffers that got a label

vars == <<config, edits, built, active, pair_text, states, current_state, pc, error,
          input_text, tokens, idx, buffer, category, results, calls, chars,
          history, attempts, path, first, spans, lastFlush, outcome, runs>>

locals == <<tokens, idx, buffer, category, results, input_text>>
observers == <<attempts, path, first, spans, lastFlush, outcome, runs>>

NoFlush == [at |-> "none", first |-> 0, last |-> 0, category |-> None, path |-> <<>>]

NotBuilt == [raised |-> FALSE, states |-> EmptyTable, current_state |-> None]

InitTransducers ==
    /\ edits = 0
    /\ built = [t \in Trans |-> NotBuilt]
    /\ states = [t \in Trans |-> EmptyTable]
    /\ current_state = [t \in Trans |-> None]
    /\ pc = [t \in Trans |-> "unbuilt"]
    /\ error = [t \in Trans |-> "none"]
    /\ input_text = [t \in Trans |-> <<>>]
    /\ tokens = [t \in Trans |-> <<>>]
    /\ idx = [t \in Trans |-> 1]
    /\ buffer = [t \in Trans |-> <<>>]
    /\ category = [t \in Trans |-> None]
    /\ results = [t \in Trans |-> <<>>]
    /\ calls = [t \in Trans |-> 0]
    /\ chars = [t \in Trans |-> 0]
    /\ history = [t \in Trans |-> <<>>]
    /\ attempts = [t \in Trans |-> 0]
    /\ path = [t \in Trans |-> <<>>]
    /\ first = [t \in Trans |-> 0]
    /\ spans = [t \in Trans |-> <<>>]
    /\ lastFlush = [t \in Trans |-> NoFlush]
    /\ outcome = [t \in Trans |-> "none"]
    /\ runs = [t \in Trans |-> {}]

InitCommon ==
    /\ config \in Configs
    /\ InitTransducers

Init ==
    /\ InitCommon
    /\ active = {1}
    /\ pair_text = <<>>

InitPair ==
    /\ InitCommon
    /\ active = Trans
    /\ pair_text \in Texts(MaxPairChars)

\* ---------------------------------------------------------------- actions
\* FiniteStateTransducer(config)
Construct(t) ==
    /\ t \in active
    /\ pc[t] = "unbuilt"
    /\ built' = [built EXCEPT ![t] = Build(config)]
    /\ LET b == Build(config) IN
       IF b.raised
       THEN /\ pc' = [pc EXCEPT ![t] = "failed"]
            /\ error' = [error EXCEPT ![t] = "KeyError"]
            /\ UNCHANGED <<states, current_state>>
       ELSE /\ pc' = [pc EXCEPT ![t] = "idle"]
            /\ states' = [states EXCEPT ![t] = b.states]
            /\ current_state' = set_current(current_state, t, b.current_state)
            /\ UNCHANGED error
    /\ UNCHANGED <<config, edits, active, pair_text, locals, calls, chars, history, observers>>

\* every call starts from the initial state
BeginReset(t, text) ==
    /\ pc' = [pc EXCEPT ![t] = "loop"]
    /\ error' = [error EXCEPT ![t] = "none"]
    /\ input_text' = [input_text EXCEPT ![t] = text]
    /\ tokens' = [tokens EXCEPT ![t] = tokenize(text)]
    /\ idx' = [idx EXCEPT ![t] = 1]
    /\ buffer' = [buffer EXCEPT ![t] = <<>>]
    /\ category' = [category EXCEPT ![t] = None]
    /\ results' = [results EXCEPT ![t] = <<>>]
    /\ calls' = [calls EXCEPT ![t] = @ + 1]
    /\ chars' = [chars EXCEPT ![t] = @ + Len(text)]
    /\ attempts' = [attempts EXCEPT ![t] = 0]
    /\ path' = [path EXCEPT ![t] = <<>>]
    /\ first' = [first EXCEPT ![t] = 0]
    /\ spans' = [spans EXCEPT ![t] = <<>>]
    /\ lastFlush' = [lastFlush EXCEPT ![t] = NoFlush]
    /\ outcome' = [outcome EXCEPT ![t] = "none"]
    /\ runs' = [runs EXCEPT ![t] = {}]
    /\ current_state' = set_current(current_state, t, built[t].current_state)
    /\ UNCHANGED <<config, edits, built, active, pair_text, states, history>>

\* fst(input_text = text): lines 123-129
Begin(t, text) ==
    /\ pc' = [pc EXCEPT ![t] = "loop"]
    /\ error' = [error EXCEPT ![t] = "none"]
    /\ input_text' = [input_text EXCEPT ![t] = text]
    /\ tokens' = [tokens EXCEPT ![t] = tokenize(text)]
    /\ idx' = [idx EXCEPT ![t] = 1]
    /\ buffer' = [buffer EXCEPT ![t] = <<>>]
    /\ category' = [category EXCEPT ![t] = None]
    /\ results' = [results EXCEPT ![t] = <<>>]
    /\ calls' = [calls EXCEPT ![t] = @ + 1]
    /\ chars' = [chars EXCEPT ![t] = @ + Len(text)]
    /\ attempts' = [attempts EXCEPT ![t] = 0]
    /\ path' = [path EXCEPT ![t] = <<>>]
    /\ first' = [first EXCEPT ![t] = 0]
    /\ spans' = [spans EXCEPT ![t] = <<>>]
    /\ lastFlush' = [lastFlush EXCEPT ![t] = NoFlush]
    /\ outcome' = [outcome EXCEPT ![t] = "none"]
    /\ runs' = [runs EXCEPT ![t] = {}]
    /\ UNCHANGED <<config, edits, built, active, pair_text, states, current_state, history>>

\* the caller's choice of input_text
Call(t) ==
    /\ t \in active
    /\ pc[t] \in {"idle", "raised"}
    /\ calls[t] < MaxCalls
    /\ IF active = Trans
       THEN calls[t] = 0 /\ Begin(t, pair_text)
       ELSE \E text \in Texts(MaxChars - chars[t]) : Begin(t, text)

Tok(t) == tokens[t][idx[t]]
Lookup(t) == get_next_state(states[t][current_state[t]], Tok(t))

\* the matched token sets the label but is not appended to the buffer
TakeNoAppend(t, r) ==
    /\ current_state' = set_current(current_state, t, r.next_state)
    /\ buffer' = buffer
    /\ category' = [category EXCEPT ![t] = update_category(@, r.output)]
    /\ path' = [path EXCEPT ![t] = Append(@, r.output)]
    /\ first' = [first EXCEPT ![t] = IF buffer[t] = <<>> THEN idx[t] ELSE @]
    /\ runs' = [runs EXCEPT ![t] =
                  IF Truthy(category'[t])
                  THEN {x \in @ : x.first # first'[t]}
                       \cup {[first |-> first'[t], last |-> idx[t]]}
                  ELSE @]

\* lines 135-138 and 149-152
Take(t, r) ==
    /\ current_state' = set_current(current_state, t, r.next_state)
    /\ buffer' = [buffer EXCEPT ![t] = Append(@, Tok(t))]
    /\ category' = [category EXCEPT ![t] = update_category(@, r.output)]
    /\ path' = [path EXCEPT ![t] = Append(@, r.output)]
    /\ first' = [first EXCEPT ![t] = IF buffer[t] = <<>> THEN idx[t] ELSE @]
    /\ runs' = [runs EXCEPT ![t] =
                  IF Truthy(category'[t])
                  THEN {x \in @ : x.first # first'[t]}
                       \cup {[first |-> first'[t], last |-> idx[t]]}
                  ELSE @]

\* lines 132-138: the token matches a transition of the current state
Advance(t) ==
    /\ pc[t] = "loop"
    /\ idx[t] <= Len(tokens[t])
    /\ LET r == Lookup(t) IN
        /\ ~r.raised
        /\ r.next_state # None
        /\ Take(t, r)
    /\ idx' = [idx EXCEPT ![t] = @ + 1]
    /\ attempts' = [attempts EXCEPT ![t] = 1]
    /\ outcome' = [outcome EXCEPT ![t] = "appended"]
    /\ UNCHANGED <<config, edits, built, active, pair_text, states, pc, error, input_text,
                   tokens, results, calls, chars, history, spans, lastFlush>>

\* lines 132, 139-145: no transition of the current state matches
FlushReset(t) ==
    /\ pc[t] = "loop"
    /\ idx[t] <= Len(tokens[t])
    /\ LET r == Lookup(t) IN ~r.raised /\ r.next_state = None
    /\ results' = [results EXCEPT ![t] = flush(@, buffer[t], category[t])]
    /\ lastFlush' = [lastFlush EXCEPT ![t] =
                       [at |-> "fail", first |-> first[t], last |-> idx[t] - 1,
                        category |-> category[t], path |-> path[t]]]
    /\ spans' = [spans EXCEPT ![t] =
                   IF Len(results'[t]) > Len(results[t])
                   THEN Append(@, [first |-> first[t], last |-> idx[t] - 1,
                                   path |-> path[t]])
                   ELSE @]
    /\ attempts' = [attempts EXCEPT ![t] = 1]
    /\ LET s == reset_state(states[t]) IN
       IF s.raised
       THEN /\ pc' = [pc EXCEPT ![t] = "raised"]
            /\ error' = [error EXCEPT ![t] = "KeyError"]
            /\ history' = [history EXCEPT ![t] =
                  Append(@, [input |-> input_text[t], raised |-> TRUE, result |-> <<>>])]
            /\ UNCHANGED <<current_state, buffer, category, path, first>>
       ELSE /\ pc' = [pc EXCEPT ![t] = "retry"]
            /\ current_state' = set_current(current_state, t, s.current_state)
            /\ buffer' = [buffer EXCEPT ![t] = reset_buffer(@)]
            /\ category' = [category EXCEPT ![t] = None]
            /\ path' = [path EXCEPT ![t] = <<>>]
            /\ first' = [first EXCEPT ![t] = 0]
            /\ UNCHANGED <<error, history>>
    /\ UNCHANGED <<config, edits, built, active, pair_text, states, input_text, tokens, idx,
                   calls, chars, outcome, runs>>

\* no second attempt: the token that failed is dropped
RetryDrop(t) ==
    /\ pc[t] = "retry"
    /\ outcome' = [outcome EXCEPT ![t] = "dropped"]
    /\ pc' = [pc EXCEPT ![t] = "loop"]
    /\ idx' = [idx EXCEPT ![t] = @ + 1]
    /\ attempts' = [attempts EXCEPT ![t] = 1]
    /\ UNCHANGED <<config, edits, built, active, pair_text, states, error, input_text,
                   tokens, results, calls, chars, history, spans, lastFlush,
                   current_state, buffer, category, path, first, runs>>

\* lines 147-152: the same token is tried once more, from the reset state
Retry(t) ==
    /\ pc[t] = "retry"
    /\ LET r == Lookup(t) IN
        /\ ~r.raised
        /\ IF r.next_state # None
           THEN /\ Take(t, r)
                /\ outcome' = [outcome EXCEPT ![t] = "restarted"]
           ELSE /\ outcome' = [outcome EXCEPT ![t] = "dropped"]
                /\ UNCHANGED <<current_state, buffer, category, path, first, runs>>
    /\ pc' = [pc EXCEPT ![t] = "loop"]
    /\ idx' = [idx EXCEPT ![t] = @ + 1]
    /\ attempts' = [attempts EXCEPT ![t] = 2]
    /\ UNCHANGED <<config, edits, built, active, pair_text, states, error, input_text,
                   tokens, results, calls, chars, history, spans, lastFlush>>

\* lines 132 and 147: re.fullmatch raises on a pattern that does not compile
MatchRaise(t) ==
    /\ pc[t] \in {"loop", "retry"}
    /\ idx[t] <= Len(tokens[t])
    /\ Lookup(t).raised
    /\ pc' = [pc EXCEPT ![t] = "raised"]
    /\ error' = [error EXCEPT ![t] = "re.error"]
    /\ attempts' = [attempts EXCEPT ![t] = IF pc[t] = "retry" THEN 2 ELSE 1]
    /\ history' = [history EXCEPT ![t] =
          Append(@, [input |-> input_text[t], raised |-> TRUE, result |-> <<>>])]
    /\ UNCHANGED <<config, edits, built, active, pair_text, states, current_state, locals,
                   calls, chars, path, first, spans, lastFlush, outcome, runs>>

\* lines 154-158: after the last token
Return(t) ==
    /\ pc[t] = "loop"
    /\ idx[t] > Len(tokens[t])
    /\ results' = [results EXCEPT ![t] = flush(@, buffer[t], category[t])]
    /\ lastFlush' = [lastFlush EXCEPT ![t] =
                       [at |-> "end", first |-> first[t], last |-> idx[t] - 1,
                        category |-> category[t], path |-> path[t]]]
    /\ spans' = [spans EXCEPT ![t] =
                   IF Len(results'[t]) > Len(results[t])
                   THEN Append(@, [first |-> first[t], last |-> idx[t] - 1,
                                   path |-> path[t]])
                   ELSE @]
    /\ history' = [history EXCEPT ![t] =
          Append(@, [input |-> input_text[t], raised |-> FALSE, result |-> results'[t]])]
    /\ pc' = [pc EXCEPT ![t] = "idle"]
    /\ UNCHANGED <<config, edits, built, active, pair_text, states, current_state, error,
                   input_text, tokens, idx, buffer, category, calls, chars,
                   attempts, path, first, outcome, runs>>

\* the caller's choice among the texts for the given configuration
CallRef(t) ==
    /\ t \in active
    /\ pc[t] \in {"idle", "raised"}
    /\ calls[t] < MaxCalls
    /\ \E text \in RefTexts : Begin(t, text)

\* the caller's choice of input_text while the configuration is being edited
CallEdit(t) ==
    /\ t \in active
    /\ pc[t] \in {"idle", "raised"}
    /\ calls[t] < MaxCalls
    /\ \E text \in Texts(MaxEditChars - chars[t]) : Begin(t, text)

\* config.add_state(name, is_final), at any time
AddState ==
    /\ edits < MaxEdits
    /\ \E e \in EditStates : config' = config_add_state(config, e[1], e[2])
    /\ edits' = edits + 1
    /\ UNCHANGED <<built, active, pair_text, states, current_state, pc, error,
                   locals, calls, chars, history, observers>>

\* config.add_transition(from_state, regex, to_state, output), at any time
AddTransition ==
    /\ edits < MaxEdits
    /\ \E e \in EditTransitions :
          config' = config_add_transition(config, e[1], e[2], e[3], e[4])
    /\ edits' = edits + 1
    /\ UNCHANGED <<built, active, pair_text, states, current_state, pc, error,
                   locals, calls, chars, history, observers>>

Next ==
    \E t \in Trans :
        \/ Construct(t)
        \/ Call(t)
        \/ Advance(t)
        \/ FlushReset(t)
        \/ Retry(t)
        \/ MatchRaise(t)
        \/ Return(t)

Spec == Init /\ [][Next]_vars

SpecPair == InitPair /\ [][Next]_vars

\* one transducer of the configuration TransducerConfig() comes with
InitRef ==
    /\ config = CfgReference
    /\ InitTransducers
    /\ active = {1}
    /\ pair_text = <<>>

NextRef ==
    \E t \in Trans :
        \/ Construct(t)
        \/ CallRef(t)
        \/ Advance(t)
        \/ FlushReset(t)
        \/ Retry(t)
        \/ Return(t)

SpecRef == InitRef /\ [][NextRef]_vars

\* one transducer whose configuration object is edited while it is in use
NextEdit ==
    \/ AddState
    \/ AddTransition
    \/ \E t \in Trans :
          \/ Construct(t)
          \/ CallEdit(t)
          \/ Advance(t)
          \/ FlushReset(t)
          \/ Retry(t)
          \/ MatchRaise(t)
          \/ Return(t)

SpecEdit == Init /\ [][NextEdit]_vars

TypeOK ==
    \A t \in Trans :
        /\ pc[t] \in {"unbuilt", "failed", "idle", "loop", "retry", "raised"}
        /\ idx[t] \in 1..(Len(tokens[t]) + 1)

\* ------------------------------------------------------------ properties
\* the last output that is a label along a path of transitions
RECURSIVE LastLabel(_)
LastLabel(p) ==
    IF p = <<>> THEN None
    ELSE IF p[Len(p)] # None THEN p[Len(p)]
    ELSE LastLabel(SubSeq(p, 1, Len(p) - 1))

\* the characters of tokens i.. of toks, a single space before all but the first
RECURSIVE SpanChars(_, _)
SpanChars(toks, i) ==
    IF i > Len(toks) THEN <<>>
    ELSE (IF i > 1 THEN <<" ">> ELSE <<>>) \o toks[i] \o SpanChars(toks, i + 1)

AllNone(p) == \A k \in DOMAIN p : p[k] = None

\* C1: the label of every emitted span is the label of the last labelled
\* transition taken while its tokens were buffered (the pending label always is
\* the last label on the path of the buffer), and its text is the buffered
\* tokens, in order, separated by single spaces.
C1_SpanLabelAndText ==
    \A t \in Trans :
        /\ category[t] = LastLabel(path[t])
        /\ Len(path[t]) = Len(buffer[t])
        /\ Len(spans[t]) = Len(results[t])
        /\ \A i \in DOMAIN results[t] :
            LET sp == spans[t][i] IN
            /\ Len(sp.path) = sp.last - sp.first + 1
            /\ results[t][i][2] = LastLabel(sp.path)
            /\ results[t][i][1] = SpanChars(SubSeq(tokens[t], sp.first, sp.last), 1)

\* a fresh transducer emitted a span on whose path a label was overwritten by
\* another label and then kept across an unlabelled transition
C1_Witness ==
    \E t \in Trans : \E i \in DOMAIN spans[t] :
        LET p == spans[t][i].path IN
        /\ calls[t] = 1
        /\ Len(p) >= 3
        /\ p[1] # None
        /\ p[2] \notin {None, p[1]}
        /\ p[3] = None
        /\ results[t][i][2] = p[2]

\* C2: after a token matched no transition of the current state the cursor is
\* (the configured initial_state, empty buffer, no label), whatever the
\* configuration.
C2_ResetToInitialState ==
    \A t \in Trans :
        pc[t] = "retry" =>
            /\ current_state[t] = config.initial_state
            /\ buffer[t] = <<>>
            /\ category[t] = None

\* C3: two calls on one transducer with the same input give the same outcome,
\* whatever was processed in between.
C3_SameInputSameResult ==
    \A t \in Trans : \A i, j \in DOMAIN history[t] :
        history[t][i].input = history[t][j].input => history[t][i] = history[t][j]

\* C4: every emitted span carries a label and crossed a labelled transition; a
\* buffer whose path crossed no labelled transition is dropped without output
\* at a failed match and at the end of the input.
C4_NoLabelNoSpan ==
    \A t \in Trans :
        /\ \A i \in DOMAIN results[t] :
            /\ results[t][i][2] # None
            /\ i \in DOMAIN spans[t] /\ ~AllNone(spans[t][i].path)
        /\ (lastFlush[t].at # "none" /\ AllNone(lastFlush[t].path)) =>
               \A i \in DOMAIN spans[t] : spans[t][i].first # lastFlush[t].first

\* a fresh transducer dropped, at a failed match, a buffer that never got a label
C4_Witness ==
    \E t \in Trans :
        /\ pc[t] = "retry"
        /\ calls[t] = 1
        /\ lastFlush[t].at = "fail"
        /\ Len(lastFlush[t].path) >= 1
        /\ AllNone(lastFlush[t].path)
        /\ results[t] = <<>>

\* C5: when a call is over, every buffer that got a label has been emitted
\* exactly once, with all of its tokens.
C5_LabelledBufferEmittedOnce ==
    \A t \in Trans :
        (calls[t] >= 1 /\ pc[t] \in {"idle", "raised"}) =>
            \A r \in runs[t] :
                Cardinality({i \in DOMAIN spans[t] :
                    spans[t][i].first = r.first /\ spans[t][i].last = r.last}) = 1

\* C6: a token that failed twice was retried exactly once, against the initial
\* state, and the next token starts from the initial state with an empty buffer.
C6_SingleRetryFromInitialState ==
    \A t \in Trans :
        /\ attempts[t] <= 2
        /\ (pc[t] = "loop" /\ outcome[t] = "dropped") =>
               /\ attempts[t] = 2
               /\ current_state[t] = config.initial_state
               /\ buffer[t] = <<>>

\* C7: the emitted spans are runs of consecutive input tokens, in input order,
\* and no token is in two spans.
C7_OrderedDisjointRuns ==
    \A t \in Trans :
        /\ Len(spans[t]) = Len(results[t])
        /\ buffer[t] # <<>> =>
               /\ first[t] >= 1
               /\ first[t] + Len(buffer[t]) - 1 <= Len(tokens[t])
               /\ buffer[t] = SubSeq(tokens[t], first[t], first[t] + Len(buffer[t]) - 1)
        /\ \A i \in DOMAIN spans[t] :
            /\ 1 <= spans[t][i].first
            /\ spans[t][i].first <= spans[t][i].last
            /\ spans[t][i].last <= Len(tokens[t])
            /\ results[t][i][1] =
                   SpanChars(SubSeq(tokens[t], spans[t][i].first, spans[t][i].last), 1)
        /\ \A i, j \in DOMAIN spans[t] :
            i < j => spans[t][i].last < spans[t][j].first

\* two spans were emitted with a dropped token between them
C7_Witness ==
    \E t \in Trans :
        /\ Len(spans[t]) >= 2
        /\ spans[t][2].first > spans[t][1].last + 1
        /\ pc[t] = "idle"

DeclaredNames(cfg) == {cfg.states[i][1] : i \in DOMAIN cfg.states}

HasUnresolvedName(cfg) ==
    \/ cfg.initial_state \notin DeclaredNames(cfg)
    \/ \E i \in DOMAIN cfg.transitions :
          \/ cfg.transitions[i][1] \notin DeclaredNames(cfg)
          \/ cfg.transitions[i][3] \notin DeclaredNames(cfg)

HasInvalidPattern(cfg) == \E i \in DOMAIN cfg.transitions : ~cfg.transitions[i][2].ok

\* C8: a configuration with an unresolved state name is never constructed, and a
\* constructed transducer never raises KeyError inside a call.
C8_UnresolvedNameOnlyAtConstruction ==
    \A t \in Trans :
        /\ HasUnresolvedName(config) => pc[t] \in {"unbuilt", "failed"}
        /\ ~(pc[t] = "raised" /\ error[t] = "KeyError")

\* C9: a configuration with a pattern that does not compile is never
\* constructed, and no call raises while matching.
C9_InvalidPatternRejectedAtConstruction ==
    \A t \in Trans :
        /\ HasInvalidPattern(config) => pc[t] \in {"unbuilt", "failed"}
        /\ ~(pc[t] = "raised" /\ error[t] = "re.error")

\* C10: of two fresh transducers of one configuration given the same text, with
\* their steps interleaved in any order, each ends as one transducer running
\* alone does, and so both end alike.
C10_InterleavedRunsAgree ==
    active = Trans =>
        \A t \in Trans :
            history[t] # <<>> =>
                LET alone == process(Build(config).states, Build(config).current_state,
                                     pair_text)
                IN  /\ history[t][1].input = pair_text
                    /\ history[t][1].raised = alone.raised
                    /\ history[t][1].result = alone.result

\* both transducers are inside their call, at different tokens, each with a
\* span already emitted
C10_Witness ==
    /\ active = Trans
    /\ pc[1] = "retry"
    /\ pc[2] = "loop"
    /\ idx[2] > idx[1]
    /\ results[1] # <<>>
    /\ results[2] # <<>>

\* C11: with the given configuration a fresh transducer returns exactly
\* [("john@example.com", "EMAIL")] for "Contact john@example.com today":
\* "Contact" is buffered without a label in q1_person and discarded at the next
\* failed match, the e-mail token is retried at q0 and starts an EMAIL span,
\* "today" flushes that span and is dropped.
C11_ContactScenario ==
    \A t \in Trans :
        (calls[t] = 1 /\ input_text[t] = TextContact) =>
            LET contact == SubSeq(TextContact, 1, 7)
                span == <<TextEmail, "EMAIL">>
            IN  /\ tokens[t] = <<contact, TextEmail, SubSeq(TextContact, 26, 30)>>
                /\ (pc[t] = "loop" /\ idx[t] = 2) =>
                       /\ current_state[t] = "q1_person"
                       /\ buffer[t] = <<contact>>
                       /\ category[t] = None
                /\ (pc[t] = "retry" /\ idx[t] = 2) =>
                       /\ current_state[t] = "q0"
                       /\ buffer[t] = <<>>
                       /\ results[t] = <<>>
                /\ (pc[t] = "loop" /\ idx[t] = 3) =>
                       /\ outcome[t] = "restarted"
                       /\ current_state[t] = "q_email"
                       /\ buffer[t] = <<TextEmail>>
                       /\ category[t] = "EMAIL"
                       /\ results[t] = <<>>
                /\ (pc[t] = "retry" /\ idx[t] = 3) => results[t] = <<span>>
                /\ (pc[t] = "loop" /\ idx[t] = 4) =>
                       /\ outcome[t] = "dropped"
                       /\ buffer[t] = <<>>
                       /\ results[t] = <<span>>
                /\ pc[t] # "raised"
                /\ pc[t] = "idle" =>
                       history[t] = <<[input |-> TextContact, raised |-> FALSE,
                                       result |-> <<span>>]>>

\* the fresh transducer has returned from the call on the three-token input
C11_Witness ==
    \E t \in Trans :
        /\ calls[t] = 1
        /\ input_text[t] = TextContact
        /\ pc[t] = "idle"
        /\ Len(history[t]) = 1

\* tokens every state of a built transducer is probed with
ProbeTokens == {<<>>, <<"a">>, <<"b">>, <<"a", "a">>, <<"a", ".", "b">>, <<"b", "a">>}

\* the transitions a configuration declares for state n, in declaration order
RECURSIVE DeclaredFrom(_, _, _)
DeclaredFrom(trs, i, n) ==
    IF i > Len(trs) THEN <<>>
    ELSE (IF trs[i][1] = n THEN <<<<trs[i][2], trs[i][3], trs[i][4]>>>> ELSE <<>>)
         \o DeclaredFrom(trs, i + 1, n)

\* C12: get_next_state returns the target and label of the first transition, in
\* declaration order, whose pattern fully matches the token, and (None, None)
\* when none matches; every state holds its transitions in the order the
\* configuration declares them.
C12_FirstFullMatchInOrder ==
    \A t \in Trans :
        pc[t] \notin {"unbuilt", "failed"} =>
            \A n \in DOMAIN states[t] :
                LET trs == states[t][n].transitions IN
                /\ trs = DeclaredFrom(config.transitions, 1, n)
                /\ \A tok \in ProbeTokens :
                    LET r == get_next_state(states[t][n], tok)
                        hits == {i \in DOMAIN trs : fullmatch(trs[i][1], tok)}
                    IN  /\ ~r.raised
                        /\ IF hits = {}
                           THEN r.next_state = None /\ r.output = None
                           ELSE LET m == CHOOSE i \in hits : \A k \in hits : i <= k
                                IN  r.next_state = trs[m][2] /\ r.output = trs[m][3]

\* the token fully matches some transition of the configured initial state
MatchesInitial(t, tok) ==
    LET r == get_next_state(states[t][config.initial_state], tok)
    IN  ~r.raised /\ r.next_state # None

\* C13: a token that fully matches a transition of the initial state is in the
\* buffer after its step (appended to the current path, or alone as the start
\* of a new one); only a token that matches no transition of the initial state
\* is dropped.
C13_InitialMatchNeverDropped ==
    \A t \in Trans :
        (pc[t] = "loop" /\ idx[t] > 1) =>
            LET tok == tokens[t][idx[t] - 1] IN
            /\ MatchesInitial(t, tok) =>
                   /\ outcome[t] \in {"appended", "restarted"}
                   /\ buffer[t] # <<>>
                   /\ buffer[t][Len(buffer[t])] = tok
            /\ outcome[t] = "restarted" => buffer[t] = <<tok>>
            /\ outcome[t] = "dropped" => ~MatchesInitial(t, tok)

\* C14: a call after the first starts with the current state, the buffer and
\* the pending label the call before it ended with.
C14_CursorCarriesOver ==
    [][\A t \in Trans :
          (calls[t] >= 1 /\ calls'[t] = calls[t] + 1) =>
              /\ current_state'[t] = current_state[t]
              /\ buffer'[t] = buffer[t]
              /\ category'[t] = category[t]]_vars

\* C14 as amended: a call after the first starts in the current state the call
\* before it ended in, with an empty buffer and no pending label.
C14_OnlyStateCarriesOver ==
    [][\A t \in Trans :
          (calls[t] >= 1 /\ calls'[t] = calls[t] + 1) =>
              /\ current_state'[t] = current_state[t]
              /\ buffer'[t] = <<>>
              /\ category'[t] = None]_vars

\* a second call is starting in a state the first call walked to (so the first
\* call ended with tokens in its buffer), with an empty buffer and no label
C14_Witness ==
    \E t \in Trans :
        /\ calls[t] = 2
        /\ pc[t] = "loop"
        /\ idx[t] = 1
        /\ Len(history[t]) = 1
        /\ ~history[t][1].raised
        /\ current_state[t] \notin {config.initial_state, "q0"}
        /\ buffer[t] = <<>>
        /\ category[t] = None

\* the configuration with is_final true for exactly the states named in finals
with_is_final(cfg, finals) ==
    [cfg EXCEPT !.states = [i \in DOMAIN cfg.states |->
                               <<cfg.states[i][1], cfg.states[i][1] \in finals>>]]

\* C15: is_final has no effect. Whatever states of the configuration are
\* marked final, the transducer constructed from it returns, from every state
\* and for every text, what the constructed one returns; every call made
\* returned what __process computes from the table; and the results of a call
\* grow only at a failed match or after the last token.
C15_IsFinalHasNoEffect ==
    /\ [](\A t \in Trans :
            (pc[t] = "idle" /\ calls[t] = 0) =>
                LET variants == {Build(with_is_final(config, finals)) :
                                    finals \in SUBSET DeclaredNames(config)}
                IN  \A b \in variants :
                        /\ ~b.raised
                        /\ b.current_state = current_state[t]
                        /\ \A cur \in DOMAIN states[t], text \in Texts(MaxFinalChars) :
                               process(b.states, cur, text) = process(states[t], cur, text))
    /\ [](\A t \in Trans :
            (pc[t] \in {"idle", "raised"} /\ history[t] # <<>>) =>
                process_calls(states[t], built[t].current_state,
                              [i \in DOMAIN history[t] |-> history[t][i].input], 1)
                    = history[t])
    /\ [][\A t \in Trans :
            Len(results'[t]) > Len(results[t]) =>
                \/ pc'[t] = "idle"
                \/ pc'[t] \in {"retry", "raised"} /\ lastFlush'[t].at = "fail"]_vars

\* a call that entered the final state q2 on its first token went on matching
\* and returned both tokens as one span
C15_Witness ==
    \E t \in Trans :
        /\ config = CfgLabels
        /\ pc[t] = "idle"
        /\ Len(history[t]) = 1
        /\ history[t][1].input = <<"b", " ", "a">>
        /\ history[t][1].result = << <<<<"b", " ", "a">>, "Y">> >>

\* C16: once a transducer is constructed, neither add_state / add_transition
\* on the configuration nor the calls made so far change a transition list or
\* the result of a call: every call returns what the automaton as constructed
\* returns for its text.
C16_ImmutableAfterConstruction ==
    \A t \in Trans :
        pc[t] \notin {"unbuilt", "failed"} =>
            /\ states[t] = built[t].states
            /\ \A i \in DOMAIN history[t] :
                   LET r == process(built[t].states, built[t].current_state,
                                    history[t][i].input)
                   IN  /\ history[t][i].raised = r.raised
                       /\ history[t][i].result = r.result

\* C17: with the reference configuration q2_person is never the current state:
\* it is entered only from q1_person, by a transition whose pattern an earlier
\* transition of q1_person (the loop back to q1_person) carries too, so the
\* scan in declaration order never reaches it.
C17_LastNameStateNeverEntered ==
    \A t \in Trans :
        /\ current_state[t] # "q2_person"
        /\ \A n \in DOMAIN states[t] :
               LET trs == states[t][n].transitions IN
               \A j \in DOMAIN trs :
                   trs[j][2] = "q2_person" =>
                       /\ n = "q1_person"
                       /\ \E i \in 1 .. (j - 1) :
                              trs[i][1] = trs[j][1] /\ trs[i][2] = "q1_person"

\* a second capitalised word was matched in q1_person and the loop was taken
C17_Witness ==
    \E t \in Trans :
        /\ pc[t] = "loop"
        /\ outcome[t] = "appended"
        /\ current_state[t] = "q1_person"
        /\ Len(buffer[t]) >= 2
        /\ category[t] = "PERSON"
        /\ \E j \in DOMAIN states[t]["q1_person"].transitions :
               states[t]["q1_person"].transitions[j][2] = "q2_person"

\* C18: at every point of a call a pending label implies a non-empty buffer,
\* and every span emitted, in the call under way or in a call that returned,
\* has the text of at least one token.
C18_LabelImpliesBuffer ==
    \A t \in Trans :
        /\ Truthy(category[t]) => buffer[t] # <<>>
        /\ \A i \in DOMAIN results[t] :
               /\ results[t][i][1] # <<>>
               /\ Truthy(results[t][i][2])
        /\ \A h \in DOMAIN history[t] :
               \A i \in DOMAIN history[t][h].result :
                   history[t][h].result[i][1] # <<>>

\* a span was emitted and the next labelled run is being buffered
C18_Witness ==
    \E t \in Trans :
        /\ pc[t] = "loop"
        /\ Truthy(category[t])
        /\ buffer[t] # <<>>
        /\ Len(results[t]) >= 1
        /\ outcome[t] = "restarted"

====
